---- MODULE Spec2Model ----
(***************************************************************************)
(* Scheduled-publish pipeline of the LinkedIn post bot:                    *)
(*   - the due-post scan of services/tasks.py run by Celery workers,       *)
(*   - the Publish Adapter services/linkedin_service.post_to_linkedin,     *)
(*   - the credential vault services/token_store.py,                       *)
(*   - the token refresh protocol services/auth_service.py,                *)
(*   - the encryption layer services/encryption.py,                        *)
(*   - the on-read migration of legacy plaintext credentials,              *)
(*   - the scanning loops of services/scheduler.py and of Celery beat.     *)
(*                                                                         *)
(* Conventions.  A Python value that may be None is modelled as a sequence *)
(* of length 0 (None) or 1 (the value).  Time is a Unix timestamp in       *)
(* seconds and only advances.  Callers "await" the token-store functions;  *)
(* the model takes the awaited value to be the value the function returns. *)
(***************************************************************************)
EXTENDS Integers, Sequences, FiniteSets, TLC

(***************************************************************************)
(* Bounds of the model.                                                    *)
(***************************************************************************)
MaxTicks == 1
MaxCrashes == 1
MaxSingles == 1
MaxIssued == 3
MaxCalls == 3
MaxLen == 2
MaxSaves == 1
MaxStarts == 2
MaxFaults == 1
MaxRequests == 2
MaxWindow == 2
MaxTime == 3
MaxChecks == 4
MaxRows == 3

(***************************************************************************)
(* Program constants.                                                      *)
(***************************************************************************)
ScanInterval == 60
refresh_buffer == 60
max_retries == 3

None == <<>>
Some(x) == <<x>>
Val(o) == o[1]

\* Python truthiness of an optional integer or token: None and 0 are falsy.
Truthy(o) == o # None /\ Val(o) # 0

PostIds == {1, 2}
Users == {"T1", "T2"}
Urns == {"urnA", "urnB"}
Workers == {"w1", "w2"}
Callers == {"c1", "c2"}

VARIABLES
    now,            \* time.time()
    posts,          \* scheduled_posts table: id -> row
    accounts,       \* accounts table of the token store: urn -> None | Some(row)
    script,         \* the provider's answers to the successive publish calls for a post
    LINKEDIN_USER_URN, \* linkedin_service.LINKEDIN_USER_URN, read from the environment
    wtask,          \* the task the worker executes: the scan or a single post
    wpc,            \* position of each worker inside the task's coroutine
    wdue,           \* due_posts still to be processed by the worker's scan
    wtokens,        \* tokens row the worker resolved for the current post
    wresult,        \* what post_to_linkedin did for the current post
    calls,          \* history: per post, the publish calls that reached the provider
    crashes,        \* history: number of worker losses so far
    singles,        \* history: number of single-post tasks started so far
    cpc,            \* position of each caller inside get_access_token_for_urn
    curn,           \* the linkedin_user_urn argument of the call
    crow,           \* token_row read by the call
    cnow,           \* now read by the call
    crefreshed,     \* RefreshTokenResponse held by the call
    cout,           \* outcome of the finished call
    issued,         \* number of tokens the provider has issued so far
    granted,        \* history: for each token the provider issued, the tenant it was issued to
    CLIENT_CONFIGURED, \* auth_service: CLIENT_ID and CLIENT_SECRET are both set
    IS_PRODUCTION,  \* encryption.IS_PRODUCTION
    ENCRYPTION_KEY, \* encryption.ENCRYPTION_KEY: "", "valid" or "invalid"
    initialization_checked, \* encryption._initialization_checked
    fernet,         \* encryption._fernet: "None" or "Fernet"
    lastCall,       \* history: the last encrypt_value / decrypt_value call
    nCalls,         \* history: number of encryption calls so far
    stored,         \* one credential row as persisted: the value and its is_encrypted flag
    mpc,            \* position of each process inside the on-read migration
    mrow,           \* the row the process read
    menc,           \* the encrypted value the process computed
    migrations,     \* history: the processes whose migration UPDATE changed the row
    saves,          \* history: number of credential saves during the migration
    scheduler_task, \* scheduler._scheduler_task: 0 for None, else the loop task it refers to
    nstarts,        \* number of loop tasks created so far
    lpc,            \* position of each loop task inside scheduler_loop
    lcancel,        \* the loop task has been cancelled and not yet noticed it
    lout,           \* what the last process_due_posts call of a loop task did
    bqueue,         \* scan messages in the broker, each with its retry number
    bpc,            \* position of the worker that runs the scan messages
    bretries,       \* retry number of the message the worker runs
    bout,           \* what the last finished scan task did
    faults,         \* history: number of scans an exception has ended so far
    max_requests,   \* RateLimiter.max_requests
    window_seconds, \* RateLimiter.window_seconds
    requests,       \* RateLimiter.requests: user_id -> [timestamps]
    current_time,   \* what time.time() returns to the rate limiter
    admitted,       \* history: per user_id key, the times of the calls that were allowed
    rlast,          \* history: the last is_allowed call and what it returned
    nchecks,        \* history: number of is_allowed calls so far
    table,          \* the rows of the repository's table, by id
    next_id,        \* the id the table gives to the next inserted row
    qlast           \* history: the last repository call and what it returned

pipeVars == <<posts, script, LINKEDIN_USER_URN, wtask, wpc, wdue, wtokens, wresult, calls, crashes, singles>>
tokVars == <<cpc, curn, crow, cnow, crefreshed, cout, issued, granted, CLIENT_CONFIGURED>>
encVars == <<IS_PRODUCTION, ENCRYPTION_KEY, initialization_checked, fernet, lastCall, nCalls>>
migVars == <<stored, mpc, mrow, menc, migrations, saves>>
schedVars == <<scheduler_task, nstarts, lpc, lcancel, lout, bqueue, bpc, bretries, bout>>
rlVars == <<max_requests, window_seconds, requests, current_time, admitted, rlast, nchecks>>
repoVars == <<table, next_id, qlast>>
extVars == <<faults, rlVars, repoVars>>
auxVars == <<migVars, schedVars, extVars>>
vars == <<now, accounts, pipeVars, tokVars, encVars, auxVars>>

(***************************************************************************)
(* Credential vault: services/token_store.py                               *)
(***************************************************************************)
TokenRow(urn, access_token, refresh_token, expires_at, user_id) ==
    [linkedin_user_urn |-> urn, access_token |-> access_token,
     refresh_token |-> refresh_token, expires_at |-> expires_at, user_id |-> user_id]

\* INSERT ... ON CONFLICT(linkedin_user_urn) DO UPDATE SET every column.
save_token(acc, urn, access_token, refresh_token, expires_at, user_id) ==
    [acc EXCEPT ![urn] = Some(TokenRow(urn, access_token, refresh_token, expires_at, user_id))]

\* SELECT ... WHERE linkedin_user_urn=?  (the column is UNIQUE)
get_token_by_urn(acc, urn) == acc[urn]

\* SELECT ... WHERE user_id=? ; fetchone() takes any one of the matching rows.
get_token_by_user_id(acc, user_id) ==
    LET match == {u \in Urns : acc[u] # None /\ Val(acc[u]).user_id = Some(user_id)}
    IN  IF match = {} THEN {None} ELSE {acc[u] : u \in match}

(***************************************************************************)
(* Schedule store: services/scheduled_posts.py                             *)
(***************************************************************************)
RECURSIVE SortedSeq(_)
SortedSeq(S) ==
    IF S = {} THEN <<>>
    ELSE LET m == CHOOSE x \in S : \A y \in S : x <= y
         IN  <<m>> \o SortedSeq(S \ {m})

\* rows with status pending whose scheduled time has passed
get_due_posts(ps, t) ==
    SortedSeq({p \in PostIds : ps[p].status = "pending" /\ ps[p].scheduled_time <= t})

\* the Status State Machine: only a pending row takes a new status
update_post_status(ps, t, post_id, status, error_message) ==
    IF ps[post_id].status # "pending" THEN ps
    ELSE [ps EXCEPT ![post_id].status = status,
                    ![post_id].error_message = error_message,
                    ![post_id].published_at =
                        IF status = "published" THEN Some(t) ELSE None]

(***************************************************************************)
(* Publish Adapter: services/linkedin_service.py                           *)
(***************************************************************************)
Http == {"201", "401", "429", "503"}
Transport == {"Timeout"}
Transient == {"429", "503", "Timeout"}

NoneResult == [kind |-> "None", success |-> FALSE, error |-> "NULL"]
DictResult(http) ==
    [kind |-> "dict", success |-> (http = "201"),
     error |-> IF http = "201" THEN "NULL" ELSE http]

\* what the function hands back after the HTTP response: it has no return statement
post_to_linkedin_return(http) == NoneResult

\* the adapter whose transport error quotes the Authorization header it sent
post_to_linkedin_quoting_header(access_token, owner, answer) ==
    IF ~Truthy(access_token) \/ ~owner
    THEN [raised |-> "RuntimeError", sent |-> FALSE, http |-> "NULL", ret |-> NoneResult]
    ELSE IF answer \in Transport
    THEN [raised |-> IF Val(access_token) = 1 THEN "Timeout: Bearer 1"
                     ELSE "Timeout: Bearer other",
          sent |-> TRUE, http |-> answer, ret |-> NoneResult]
    ELSE [raised |-> "NULL", sent |-> TRUE, http |-> answer,
          ret |-> post_to_linkedin_return(answer)]

\* post_to_linkedin(message_text, access_token=...): the dispatcher passes no
\* linkedin_user_urn, so the owner is the process-wide LINKEDIN_USER_URN.
post_to_linkedin(access_token, owner, answer) ==
    IF ~Truthy(access_token) \/ ~owner
    THEN [raised |-> "RuntimeError", sent |-> FALSE, http |-> "NULL", ret |-> NoneResult]
    ELSE IF answer \in Transport
    THEN [raised |-> answer, sent |-> TRUE, http |-> answer, ret |-> NoneResult]
    ELSE [raised |-> "NULL", sent |-> TRUE, http |-> answer,
          ret |-> post_to_linkedin_return(answer)]

NoCall == [raised |-> "NULL", sent |-> FALSE, http |-> "NULL", ret |-> NoneResult]

\* line 5: LINKEDIN_USER_URN = os.getenv('LINKEDIN_USER_URN', '') -- the one
\* account the process is configured with; here it is the account of the
\* first tenant
DefaultAccount == "urnA"

\* lines 81 and 98: "author": f"urn:li:person:{LINKEDIN_USER_URN}" -- the
\* author of the post is the configured account whatever linkedin_user_urn
\* the caller passed
post_author(linkedin_user_urn) == DefaultAccount

(***************************************************************************)
(* Task Dispatcher: services/tasks.py, _process_due_posts_async            *)
(***************************************************************************)
NotConnectedMsg == "LinkedIn not connected or token expired"

\* the status written for a publish failure that could be retried
DispatchWriteRetrying(res) ==
    IF res.raised # "NULL" \/ res.ret.kind = "None" \/ ~res.ret.success
    THEN [status |-> "retrying", error_message |-> "NULL"]
    ELSE [status |-> "published", error_message |-> "NULL"]

\* the handler that logs the exception and leaves the row as it is
DispatchWriteLogOnly(res) ==
    IF res.raised # "NULL" \/ res.ret.kind = "None"
    THEN [status |-> "pending", error_message |-> "NULL"]
    ELSE IF res.ret.success
    THEN [status |-> "published", error_message |-> "NULL"]
    ELSE [status |-> "failed", error_message |-> res.ret.error]

\* lines 141-154: the status and error_message written for a publish result
DispatchWrite(res) ==
    IF res.raised # "NULL"
    THEN [status |-> "failed", error_message |-> res.raised]
    ELSE IF res.ret.kind = "None"
    THEN [status |-> "failed", error_message |-> "AttributeError"]
    ELSE IF res.ret.success
    THEN [status |-> "published", error_message |-> "NULL"]
    ELSE [status |-> "failed", error_message |-> res.ret.error]

\* the same test without the look at the access token
NoUsableTokenRowOnly(tokens) == tokens = None

\* line 125 (scan) and line 181 (single post): not tokens or not tokens.get('access_token')
NoUsableToken(tokens) == tokens = None \/ ~Truthy(Val(tokens).access_token)

\* the answer the provider gives to the n-th publish call for a post
Answer(n) ==
    IF n <= Len(script) THEN script[n] ELSE script[Len(script)]

\* a stored token that is expired or within the buffer window of its expiry
Stale(row, t) == row.expires_at # None /\ Val(row.expires_at) - t <= refresh_buffer

\* lines 98-114: connect, query the due posts, enter the loop
StartScan(w) ==
    /\ wpc[w] = "idle"
    /\ LET due == get_due_posts(posts, now)
       IN  /\ wdue' = [wdue EXCEPT ![w] = due]
           /\ wpc' = [wpc EXCEPT ![w] = IF due = <<>> THEN "idle" ELSE "token"]
    /\ wtask' = [wtask EXCEPT ![w] = IF get_due_posts(posts, now) = <<>> THEN "none" ELSE "scan"]
    /\ UNCHANGED <<now, accounts, posts, script, LINKEDIN_USER_URN, wtokens, wresult,
                   calls, crashes, singles, tokVars, encVars, auxVars>>

\* lines 159-175 and 263-301: publish_single_post_task is handed one post by
\* its caller; the coroutine does not look at the row's status or time.
StartSingle(w, post_id) ==
    /\ wpc[w] = "idle"
    /\ singles < MaxSingles
    /\ singles' = singles + 1
    /\ wtask' = [wtask EXCEPT ![w] = "single"]
    /\ wdue' = [wdue EXCEPT ![w] = <<post_id>>]
    /\ wpc' = [wpc EXCEPT ![w] = "token"]
    /\ UNCHANGED <<now, accounts, posts, script, LINKEDIN_USER_URN, wtokens, wresult,
                   calls, crashes, tokVars, encVars, auxVars>>

\* lines 104-107: the due-post query raises; the scan logs and returns 0
ScanQueryFails(w) ==
    /\ wpc[w] = "idle"
    /\ UNCHANGED vars

\* lines 117-133 (scan) and 177-187 (single post): resolve the tenant's tokens;
\* without them fail the post
GetToken(w) ==
    /\ wpc[w] = "token"
    /\ LET post_id == Head(wdue[w])
       IN  \E tokens \in get_token_by_user_id(accounts, posts[post_id].user_id) :
             IF NoUsableToken(tokens)
             THEN /\ posts' = update_post_status(posts, now, post_id, "failed", NotConnectedMsg)
                  /\ wdue' = [wdue EXCEPT ![w] = Tail(@)]
                  /\ wpc' = [wpc EXCEPT ![w] = IF Tail(wdue[w]) = <<>> THEN "idle" ELSE "token"]
                  /\ wtask' = [wtask EXCEPT ![w] = IF Tail(wdue[w]) = <<>> THEN "none" ELSE @]
                  /\ UNCHANGED wtokens
             ELSE /\ wtokens' = [wtokens EXCEPT ![w] = tokens]
                  /\ wpc' = [wpc EXCEPT ![w] = "publish"]
                  /\ UNCHANGED <<posts, wdue, wtask>>
    /\ UNCHANGED <<now, accounts, script, LINKEDIN_USER_URN, wresult, calls, crashes, singles,
                   tokVars, encVars, auxVars>>

\* lines 135-139 (scan) and 189-193 (single post): the publish call
Publish(w) ==
    /\ wpc[w] = "publish"
    /\ LET post_id == Head(wdue[w])
           row == Val(wtokens[w])
           res == post_to_linkedin(row.access_token, LINKEDIN_USER_URN,
                                   Answer(Len(calls[post_id]) + 1))
       IN  /\ wresult' = [wresult EXCEPT ![w] = res]
           /\ calls' = IF res.sent
                       THEN [calls EXCEPT ![post_id] =
                               Append(@, [http |-> res.http, stale |-> Stale(row, now),
                                          user_id |-> row.user_id,
                                          author |-> post_author(None)])]
                       ELSE calls
    /\ wpc' = [wpc EXCEPT ![w] = "write"]
    /\ UNCHANGED <<now, accounts, posts, script, LINKEDIN_USER_URN, wtask, wdue, wtokens,
                   crashes, singles, tokVars, encVars, auxVars>>

\* lines 141-154 (scan) and 195-208 (single post): write the status back and
\* go on with the next due post
WriteBack(w) ==
    /\ wpc[w] = "write"
    /\ LET post_id == Head(wdue[w])
           wr == DispatchWrite(wresult[w])
       IN  posts' = update_post_status(posts, now, post_id, wr.status, wr.error_message)
    /\ wdue' = [wdue EXCEPT ![w] = Tail(@)]
    /\ wpc' = [wpc EXCEPT ![w] = IF Tail(wdue[w]) = <<>> THEN "idle" ELSE "token"]
    /\ wtokens' = [wtokens EXCEPT ![w] = None]
    /\ wresult' = [wresult EXCEPT ![w] = NoCall]
    /\ wtask' = [wtask EXCEPT ![w] = IF Tail(wdue[w]) = <<>> THEN "none" ELSE @]
    /\ UNCHANGED <<now, accounts, script, LINKEDIN_USER_URN, calls, crashes, singles,
                   tokVars, encVars, auxVars>>

\* celery_app.py lines 61-62: a worker lost in the middle of a task has not
\* acknowledged it; the broker redelivers the task, which starts over.
WorkerLost(w) ==
    /\ wpc[w] # "idle"
    /\ crashes < MaxCrashes
    /\ crashes' = crashes + 1
    /\ wpc' = [wpc EXCEPT ![w] = "idle"]
    /\ wdue' = [wdue EXCEPT ![w] = <<>>]
    /\ wtokens' = [wtokens EXCEPT ![w] = None]
    /\ wresult' = [wresult EXCEPT ![w] = NoCall]
    /\ wtask' = [wtask EXCEPT ![w] = "none"]
    /\ UNCHANGED <<now, accounts, posts, script, LINKEDIN_USER_URN, calls, singles,
                   tokVars, encVars, auxVars>>

\* the clock
Tick ==
    /\ now < MaxTicks * ScanInterval
    /\ now' = now + ScanInterval
    /\ UNCHANGED <<accounts, pipeVars, tokVars, encVars, auxVars>>

(***************************************************************************)
(* Token Refresh Protocol: services/auth_service.py                        *)
(***************************************************************************)
NoOutcome == [kind |-> "none", exc |-> "NULL", msg |-> "NULL", token |-> None,
              called |-> FALSE, wrote |-> FALSE]
Raise(exc, msg, called) ==
    [kind |-> "raise", exc |-> exc, msg |-> msg, token |-> None,
     called |-> called, wrote |-> FALSE]
Return(token, called, wrote) ==
    [kind |-> "return", exc |-> "NULL", msg |-> "NULL", token |-> token,
     called |-> called, wrote |-> wrote]

\* the refresh test with a strict comparison
NeedsRefreshStrict(expires_at, t, buffer) ==
    Truthy(expires_at) /\ (Val(expires_at) - t) < buffer

\* line 726: if expires_at and (expires_at - now) <= refresh_buffer
NeedsRefresh(expires_at, t, buffer) ==
    Truthy(expires_at) /\ (Val(expires_at) - t) <= buffer

\* lines 575 and 670: int(time.time()) + int(expires_in) if expires_in else None
ExpiresAt(t, expires_in) ==
    IF Truthy(expires_in) THEN Some(t + Val(expires_in)) ELSE None

\* the token endpoint's answers to a refresh request: a rejection (timeout,
\* connection failure, HTTP error status), a 2xx answer whose body is not
\* JSON, a body without access_token, or a new access token with or without
\* a rotated refresh token and with or without expires_in
RefreshAnswers ==
    {[kind |-> "rejected", rotated |-> FALSE, expires_in |-> None],
     [kind |-> "malformed_body", rotated |-> FALSE, expires_in |-> None],
     [kind |-> "no_access_token", rotated |-> FALSE, expires_in |-> None]} \cup
    [kind : {"ok"}, rotated : BOOLEAN, expires_in : {None, Some(3 * ScanInterval)}]

\* the refresh request whose failures all carry the message of the missing
\* refresh token
refresh_access_token_same_message(refresh_token, configured, answer, fresh, t) ==
    IF ~configured
    THEN [raised |-> "AuthConfigurationError", msg |-> "credentials not set",
          called |-> FALSE, response |-> None]
    ELSE IF answer.kind = "malformed_body"
    THEN [raised |-> "JSONDecodeError", msg |-> "Expecting value",
          called |-> TRUE, response |-> None]
    ELSE IF answer.kind \in {"rejected", "no_access_token"}
    THEN [raised |-> "TokenRefreshError",
          msg |-> "No refresh token available to refresh access token",
          called |-> TRUE, response |-> None]
    ELSE [raised |-> "NULL", msg |-> "NULL", called |-> TRUE,
          response |-> Some([access_token |-> Some(fresh),
                             refresh_token |-> IF answer.rotated THEN Some(fresh)
                                               ELSE refresh_token,
                             expires_at |-> ExpiresAt(t, answer.expires_in)])]

\* refresh_access_token, lines 622-681: the exception raised or the
\* RefreshTokenResponse returned; fresh is the token the provider issues.
\* _make_request (lines 218-277) turns Timeout, ConnectionError, HTTPError and
\* every other RequestException into AuthProviderError, which lines 645-656
\* turn into TokenRefreshError; response.json() on line 657 stands outside
\* that try block, so a body that is not JSON raises the decoder's exception
refresh_access_token(refresh_token, configured, answer, fresh, t) ==
    IF ~configured
    THEN [raised |-> "AuthConfigurationError", msg |-> "credentials not set",
          called |-> FALSE, response |-> None]
    ELSE IF answer.kind = "rejected"
    THEN [raised |-> "TokenRefreshError", msg |-> "Failed to refresh LinkedIn token",
          called |-> TRUE, response |-> None]
    ELSE IF answer.kind = "malformed_body"
    THEN [raised |-> "JSONDecodeError", msg |-> "Expecting value",
          called |-> TRUE, response |-> None]
    ELSE IF answer.kind = "no_access_token"
    THEN [raised |-> "TokenRefreshError",
          msg |-> "LinkedIn refresh response did not contain access_token",
          called |-> TRUE, response |-> None]
    ELSE [raised |-> "NULL", msg |-> "NULL", called |-> TRUE,
          response |-> Some([access_token |-> Some(fresh),
                             refresh_token |-> IF answer.rotated THEN Some(fresh)
                                               ELSE refresh_token,
                             expires_at |-> ExpiresAt(t, answer.expires_in)])]

\* the write of the refreshed credential that leaves the row's user_id as it is
save_refreshed_keep_user(acc, urn, refreshed) ==
    save_token(acc, urn, refreshed.access_token, refreshed.refresh_token,
               refreshed.expires_at,
               IF acc[urn] = None THEN None ELSE Val(acc[urn]).user_id)

\* the write of the refreshed credential that leaves the vault as it was
save_refreshed_nowhere(acc, urn, refreshed) == acc

\* lines 745-750: save_token(linkedin_user_urn, access_token, refresh_token,
\* expires_at) -- user_id is not passed and takes its default None
save_refreshed(acc, urn, refreshed) ==
    save_token(acc, urn, refreshed.access_token, refreshed.refresh_token,
               refreshed.expires_at, None)

\* get_access_token_for_urn, lines 710-740 and 755: read the row and decide
TokCall(c, urn) ==
    /\ cpc[c] \in {"idle", "done"}
    /\ curn' = [curn EXCEPT ![c] = urn]
    /\ crow' = [crow EXCEPT ![c] = get_token_by_urn(accounts, urn)]
    /\ cnow' = [cnow EXCEPT ![c] = now]
    /\ crefreshed' = [crefreshed EXCEPT ![c] = None]
    /\ LET token_row == get_token_by_urn(accounts, urn)
       IN  IF token_row = None
           THEN /\ cout' = [cout EXCEPT ![c] =
                              Raise("TokenNotFoundError", "No token found for LinkedIn URN", FALSE)]
                /\ cpc' = [cpc EXCEPT ![c] = "done"]
           ELSE IF NeedsRefresh(Val(token_row).expires_at, now, refresh_buffer)
           THEN IF ~Truthy(Val(token_row).refresh_token)
                THEN /\ cout' = [cout EXCEPT ![c] =
                                   Raise("TokenRefreshError",
                                         "No refresh token available to refresh access token",
                                         FALSE)]
                     /\ cpc' = [cpc EXCEPT ![c] = "done"]
                ELSE /\ cout' = [cout EXCEPT ![c] = NoOutcome]
                     /\ cpc' = [cpc EXCEPT ![c] = "refresh"]
           ELSE /\ cout' = [cout EXCEPT ![c] = Return(Val(token_row).access_token, FALSE, FALSE)]
                /\ cpc' = [cpc EXCEPT ![c] = "done"]
    /\ UNCHANGED <<now, accounts, pipeVars, issued, granted, CLIENT_CONFIGURED, encVars, auxVars>>

\* line 742: the refresh request
TokRefresh(c, answer) ==
    /\ cpc[c] = "refresh"
    /\ issued <= MaxIssued
    /\ LET r == refresh_access_token(Val(crow[c]).refresh_token, CLIENT_CONFIGURED, answer,
                                     issued + 1, now)
       IN  IF r.raised # "NULL"
           THEN /\ cout' = [cout EXCEPT ![c] = Raise(r.raised, r.msg, r.called)]
                /\ cpc' = [cpc EXCEPT ![c] = "done"]
                /\ UNCHANGED <<crefreshed, issued, granted>>
           ELSE /\ crefreshed' = [crefreshed EXCEPT ![c] = r.response]
                /\ cpc' = [cpc EXCEPT ![c] = "save"]
                /\ issued' = issued + 1
                /\ granted' = Append(granted, granted[Val(Val(crow[c]).refresh_token)])
                /\ UNCHANGED cout
    /\ UNCHANGED <<now, accounts, pipeVars, curn, crow, cnow, CLIENT_CONFIGURED, encVars,
                   auxVars>>

\* lines 745-753: store the refreshed credential, then return the new token
TokSave(c) ==
    /\ cpc[c] = "save"
    /\ accounts' = save_refreshed(accounts, curn[c], Val(crefreshed[c]))
    /\ cout' = [cout EXCEPT ![c] = Return(Val(crefreshed[c]).access_token, TRUE, TRUE)]
    /\ cpc' = [cpc EXCEPT ![c] = "done"]
    /\ UNCHANGED <<now, pipeVars, curn, crow, cnow, crefreshed, issued, granted,
                   CLIENT_CONFIGURED, encVars, auxVars>>

\* exchange_code_for_token, lines 556-584: a tenant (re-)authorizes and the
\* new credential is saved without a refresh token
ExchangeCode(urn, user_id, expires_in) ==
    /\ issued <= MaxIssued
    /\ CLIENT_CONFIGURED
    /\ issued' = issued + 1
    /\ granted' = Append(granted, user_id)
    /\ accounts' = save_token(accounts, urn, Some(issued + 1), None,
                              ExpiresAt(now, expires_in), Some(user_id))
    /\ UNCHANGED <<now, pipeVars, cpc, curn, crow, cnow, crefreshed, cout, CLIENT_CONFIGURED,
                   encVars, auxVars>>

(***************************************************************************)
(* Encryption layer: services/encryption.py                                *)
(* A string is a sequence of symbols; "ENC:" is the four-character tag and *)
(* "gAAAA" the head of a Fernet token.                                     *)
(***************************************************************************)
Alphabet == {"ENC:", "a"}
RECURSIVE StringsUpTo(_)
StringsUpTo(n) ==
    IF n = 0 THEN {<<>>}
    ELSE LET shorter == StringsUpTo(n - 1)
         IN  shorter \cup {Append(x, ch) : x \in shorter, ch \in Alphabet}
Strings == StringsUpTo(MaxLen)

\* Fernet.encrypt / Fernet.decrypt under the configured key
FernetEncrypt(x) == <<"gAAAA">> \o x
FernetValid(c) == c # <<>> /\ c[1] = "gAAAA"
FernetDecrypt(c) == Tail(c)

\* str.startswith('ENC:')
StartsWithTag(x) == x # <<>> /\ x[1] = "ENC:"

\* _check_encryption_requirements, lines 97-153: the module state after the
\* call and the exception it raises
check_encryption_requirements(checked, key, prod) ==
    IF checked THEN [checked |-> TRUE, raised |-> "NULL"]
    ELSE IF key = "" /\ prod
    THEN [checked |-> TRUE, raised |-> "EncryptionKeyMissingError"]
    ELSE [checked |-> TRUE, raised |-> "NULL"]

\* _get_fernet, lines 166-186
get_fernet(checked, f, key, prod) ==
    LET chk == check_encryption_requirements(checked, key, prod)
    IN  IF chk.raised # "NULL"
        THEN [checked |-> chk.checked, fernet |-> f, raised |-> chk.raised, value |-> "None"]
        ELSE IF f # "None"
        THEN [checked |-> chk.checked, fernet |-> f, raised |-> "NULL", value |-> f]
        ELSE IF key = ""
        THEN [checked |-> chk.checked, fernet |-> f, raised |-> "NULL", value |-> "None"]
        ELSE IF key = "valid"
        THEN [checked |-> chk.checked, fernet |-> "Fernet", raised |-> "NULL", value |-> "Fernet"]
        ELSE IF prod
        THEN [checked |-> chk.checked, fernet |-> f, raised |-> "EncryptionKeyMissingError",
              value |-> "None"]
        ELSE [checked |-> chk.checked, fernet |-> f, raised |-> "NULL", value |-> "None"]

\* encrypt_value, lines 212-232
encrypt_value(plaintext, checked, f, key, prod) ==
    IF plaintext = <<>>
    THEN [checked |-> checked, fernet |-> f, raised |-> "NULL", result |-> <<>>]
    ELSE LET g == get_fernet(checked, f, key, prod)
         IN  IF g.raised # "NULL"
             THEN [checked |-> g.checked, fernet |-> g.fernet, raised |-> g.raised,
                   result |-> <<>>]
             ELSE IF g.value = "None"
             THEN [checked |-> g.checked, fernet |-> g.fernet, raised |-> "NULL",
                   result |-> plaintext]
             ELSE [checked |-> g.checked, fernet |-> g.fernet, raised |-> "NULL",
                   result |-> <<"ENC:">> \o FernetEncrypt(plaintext)]

\* decrypt_value, lines 253-281
decrypt_value(encrypted, checked, f, key, prod) ==
    IF encrypted = <<>>
    THEN [checked |-> checked, fernet |-> f, raised |-> "NULL", result |-> <<>>]
    ELSE IF ~StartsWithTag(encrypted)
    THEN [checked |-> checked, fernet |-> f, raised |-> "NULL", result |-> encrypted]
    ELSE LET g == get_fernet(checked, f, key, prod)
         IN  IF g.raised # "NULL"
             THEN [checked |-> g.checked, fernet |-> g.fernet, raised |-> g.raised,
                   result |-> <<>>]
             ELSE IF g.value = "None"
             THEN [checked |-> g.checked, fernet |-> g.fernet,
                   raised |-> IF prod THEN "EncryptionKeyMissingError" ELSE "NULL",
                   result |-> <<>>]
             ELSE IF FernetValid(Tail(encrypted))
             THEN [checked |-> g.checked, fernet |-> g.fernet, raised |-> "NULL",
                   result |-> FernetDecrypt(Tail(encrypted))]
             ELSE [checked |-> g.checked, fernet |-> g.fernet,
                   raised |-> IF prod THEN "EncryptionKeyMissingError" ELSE "NULL",
                   result |-> <<>>]

\* a call of encrypt_value in this process
EncryptCall(x) ==
    /\ nCalls < MaxCalls
    /\ LET r == encrypt_value(x, initialization_checked, fernet, ENCRYPTION_KEY, IS_PRODUCTION)
       IN  /\ initialization_checked' = r.checked
           /\ fernet' = r.fernet
           /\ lastCall' = [op |-> "encrypt_value", arg |-> x, result |-> r.result,
                           raised |-> r.raised, plain |-> None]
    /\ nCalls' = nCalls + 1
    /\ UNCHANGED <<now, accounts, pipeVars, tokVars, IS_PRODUCTION, ENCRYPTION_KEY, auxVars>>

\* a call of decrypt_value in this process; plain remembers the value whose
\* encryption the argument is, when the argument is what the encrypt_value
\* call just before returned
DecryptCall(x) ==
    /\ nCalls < MaxCalls
    /\ LET r == decrypt_value(x, initialization_checked, fernet, ENCRYPTION_KEY, IS_PRODUCTION)
       IN  /\ initialization_checked' = r.checked
           /\ fernet' = r.fernet
           /\ lastCall' = [op |-> "decrypt_value", arg |-> x, result |-> r.result,
                           raised |-> r.raised,
                           plain |-> IF /\ lastCall.op = "encrypt_value"
                                        /\ lastCall.raised = "NULL"
                                        /\ lastCall.result = x
                                     THEN Some(lastCall.arg) ELSE None]
    /\ nCalls' = nCalls + 1
    /\ UNCHANGED <<now, accounts, pipeVars, tokVars, IS_PRODUCTION, ENCRYPTION_KEY, auxVars>>

(***************************************************************************)
(* On-read migration of a legacy plaintext credential:                     *)
(* services/token_store._migrate_if_plaintext, accounts.is_encrypted       *)
(***************************************************************************)
Migrators == {"m1", "m2"}

StoredRow(value, flag) == [access_token |-> value, is_encrypted |-> flag]

\* the value a process with a fresh encryption module computes for the row
MigrateEncrypt(value) ==
    encrypt_value(value, FALSE, "None", ENCRYPTION_KEY, IS_PRODUCTION).result

\* UPDATE accounts SET access_token=?, is_encrypted=1 whatever the flag says
migrate_update_unconditional(row, enc) == StoredRow(enc, TRUE)

\* UPDATE accounts SET access_token=?, is_encrypted=1
\*   WHERE ... AND (is_encrypted=0 OR is_encrypted IS NULL)
migrate_update(row, enc) ==
    IF row.is_encrypted THEN row ELSE StoredRow(enc, TRUE)

\* the read that triggers the migration: a row whose flag says unencrypted
\* is encrypted by the reader, any other row is left alone
MigRead(m) ==
    /\ mpc[m] = "idle"
    /\ mrow' = [mrow EXCEPT ![m] = stored]
    /\ IF stored.is_encrypted
       THEN /\ mpc' = [mpc EXCEPT ![m] = "done"]
            /\ UNCHANGED menc
       ELSE /\ mpc' = [mpc EXCEPT ![m] = "write"]
            /\ menc' = [menc EXCEPT ![m] = MigrateEncrypt(stored.access_token)]
    /\ UNCHANGED <<now, accounts, pipeVars, tokVars, encVars, stored, migrations, saves,
                   schedVars, extVars>>

\* the conditional UPDATE and its commit
MigWrite(m) ==
    /\ mpc[m] = "write"
    /\ stored' = migrate_update(stored, menc[m])
    /\ migrations' = IF stored' # stored THEN Append(migrations, m) ELSE migrations
    /\ mpc' = [mpc EXCEPT ![m] = "done"]
    /\ UNCHANGED <<now, accounts, pipeVars, tokVars, encVars, mrow, menc, saves, schedVars, extVars>>

\* a newer credential is saved for the row while the migration is under way
MigSave(value) ==
    /\ saves < MaxSaves
    /\ saves' = saves + 1
    /\ stored' = StoredRow(MigrateEncrypt(value), TRUE)
    /\ UNCHANGED <<now, accounts, pipeVars, tokVars, encVars, mpc, mrow, menc, migrations,
                   schedVars, extVars>>

(***************************************************************************)
(* The scanning loops: services/scheduler.py (the asyncio loop) and the    *)
(* Celery beat schedule of services/celery_app.py with the scan task of    *)
(* services/tasks.py                                                       *)
(***************************************************************************)
LoopTasks == 1..MaxStarts
ScanAnswers == {"none_due", "processed", "query_failed", "raised"}
NoScan == [raised |-> "NULL", count |-> 0, queried |-> FALSE, answer |-> "none"]

\* process_due_posts, lines 27-92: imports_ok tells whether the two lazy
\* imports succeed (the modules under services/ define neither
\* publish_to_linkedin nor get_linkedin_tokens); answer is what the database
\* does: the query fails, finds nothing, the posts are processed, or the
\* status write inside the except handler of line 88 raises as well
process_due_posts(imports_ok, answer) ==
    IF ~imports_ok
    THEN [raised |-> "NULL", count |-> 0, queried |-> FALSE, answer |-> "import_error"]
    ELSE IF answer = "query_failed"
    THEN [raised |-> "NULL", count |-> 0, queried |-> TRUE, answer |-> answer]
    ELSE IF answer = "none_due"
    THEN [raised |-> "NULL", count |-> 0, queried |-> TRUE, answer |-> answer]
    ELSE IF answer = "processed"
    THEN [raised |-> "NULL", count |-> 1, queried |-> TRUE, answer |-> answer]
    ELSE [raised |-> "Exception", count |-> 0, queried |-> TRUE, answer |-> answer]

\* the loop body without its try/except
scheduler_loop_unguarded(res) == IF res.raised # "NULL" THEN "ended" ELSE "sleep"

\* scheduler_loop, lines 101-110: the position after one call of
\* process_due_posts -- the except clause logs, then comes the sleep
scheduler_loop_next(res) == "sleep"

\* a start that does not look at _scheduler_task
start_scheduler_unchecked(task, n) == [task |-> n + 1, created |-> TRUE]

\* start_scheduler, lines 118-129, and start_scheduler_async, lines 136-143:
\* with a task registered the call only logs; otherwise it creates the next
\* task and registers it
start_scheduler(task, n) ==
    IF task # 0
    THEN [task |-> task, created |-> FALSE]
    ELSE [task |-> n + 1, created |-> TRUE]

\* one call of start_scheduler or start_scheduler_async
StartScheduler ==
    /\ LET r == start_scheduler(scheduler_task, nstarts)
       IN  IF ~r.created
           THEN UNCHANGED <<scheduler_task, nstarts, lpc>>
           ELSE /\ nstarts < MaxStarts
                /\ nstarts' = nstarts + 1
                /\ scheduler_task' = r.task
                /\ lpc' = [lpc EXCEPT ![r.task] = "scan"]
    /\ UNCHANGED <<now, accounts, pipeVars, tokVars, encVars, migVars, extVars, lcancel, lout,
                   bqueue, bpc, bretries, bout>>

\* stop_scheduler, lines 151-156
StopScheduler ==
    /\ IF scheduler_task # 0
       THEN /\ lcancel' = [lcancel EXCEPT ![scheduler_task] = TRUE]
            /\ scheduler_task' = 0
       ELSE UNCHANGED <<scheduler_task, lcancel>>
    /\ UNCHANGED <<now, accounts, pipeVars, tokVars, encVars, migVars, extVars, nstarts, lpc, lout,
                   bqueue, bpc, bretries, bout>>

\* lines 102-107: one scan of the loop
LoopScan(i, imports_ok, answer) ==
    /\ lpc[i] = "scan"
    /\ ~lcancel[i]
    /\ LET res == process_due_posts(imports_ok, answer)
       IN  /\ lout' = res
           /\ lpc' = [lpc EXCEPT ![i] = scheduler_loop_next(res)]
    /\ UNCHANGED <<now, accounts, pipeVars, tokVars, encVars, migVars, extVars, scheduler_task, nstarts,
                   lcancel, bqueue, bpc, bretries, bout>>

\* line 110: the sleep is over
LoopSleep(i) ==
    /\ lpc[i] = "sleep"
    /\ ~lcancel[i]
    /\ lpc' = [lpc EXCEPT ![i] = "scan"]
    /\ UNCHANGED <<now, accounts, pipeVars, tokVars, encVars, migVars, extVars, scheduler_task, nstarts,
                   lcancel, lout, bqueue, bpc, bretries, bout>>

\* the cancelled task gets CancelledError at its await and ends
LoopCancelled(i) ==
    /\ lpc[i] \in {"scan", "sleep"}
    /\ lcancel[i]
    /\ lpc' = [lpc EXCEPT ![i] = "ended"]
    /\ lcancel' = [lcancel EXCEPT ![i] = FALSE]
    /\ UNCHANGED <<now, accounts, pipeVars, tokVars, encVars, migVars, extVars, scheduler_task, nstarts,
                   lout, bqueue, bpc, bretries, bout>>

\* celery_app.py lines 78-86: beat sends the scan task every 60 seconds; a
\* message not picked up within 55 seconds has expired by then
BeatSend ==
    /\ bqueue' = bqueue \cup {0}
    /\ UNCHANGED <<now, accounts, pipeVars, tokVars, encVars, migVars, extVars, scheduler_task, nstarts,
                   lpc, lcancel, lout, bpc, bretries, bout>>

\* the worker takes a scan message
TaskStart(r) ==
    /\ bpc = "idle"
    /\ r \in bqueue
    /\ bqueue' = bqueue \ {r}
    /\ bretries' = r
    /\ bpc' = "run"
    /\ UNCHANGED <<now, accounts, pipeVars, tokVars, encVars, migVars, extVars, scheduler_task, nstarts,
                   lpc, lcancel, lout, bout>>

\* tasks.py lines 98-111 and 215-260: the scan task ends; a failed query is
\* logged and the task returns 0; an exception that leaves the coroutine is
\* re-raised and the task is sent again until max_retries is used up
TaskRun(answer) ==
    /\ bpc = "run"
    /\ bout' = answer
    /\ bpc' = "idle"
    /\ bqueue' = IF answer = "raised" /\ bretries < max_retries
                 THEN bqueue \cup {bretries + 1} ELSE bqueue
    /\ UNCHANGED <<now, accounts, pipeVars, tokVars, encVars, migVars, extVars, scheduler_task, nstarts,
                   lpc, lcancel, lout, bretries>>

(***************************************************************************)
(* Initial states                                                          *)
(***************************************************************************)
Scripts == {<<"201">>, <<"503", "503", "503", "201">>, <<"Timeout">>}

PostUser(p) == IF p = 1 THEN "T1" ELSE "T2"
UrnUser(u) == IF u = "urnA" THEN "T1" ELSE "T2"

\* the token the provider had issued for the account before the model starts
InitialToken(u) == IF u = "urnA" THEN 1 ELSE 2

\* credentials found in the vault when the workers start: none, a row without
\* an access token, a token that expires
PipeRows(u) ==
    {None} \cup
    {Some(TokenRow(u, None, None, None, Some(UrnUser(u)))),
     Some(TokenRow(u, Some(InitialToken(u)), None, Some(2 * ScanInterval),
                   Some(UrnUser(u))))}

PipeIdle ==
    /\ wtask = [w \in Workers |-> "none"]
    /\ wpc = [w \in Workers |-> "idle"]
    /\ wdue = [w \in Workers |-> <<>>]
    /\ wtokens = [w \in Workers |-> None]
    /\ wresult = [w \in Workers |-> NoCall]
    /\ calls = [p \in PostIds |-> <<>>]
    /\ crashes = 0
    /\ singles = 0

PipeFixed ==
    /\ posts = [p \in PostIds |->
                  [user_id |-> PostUser(p), scheduled_time |-> 0, status |-> "pending",
                   error_message |-> "NULL", published_at |-> None]]
    /\ script = <<"201">>
    /\ LINKEDIN_USER_URN = TRUE
    /\ PipeIdle

TokIdle ==
    /\ cpc = [c \in Callers |-> "idle"]
    /\ curn = [c \in Callers |-> "urnA"]
    /\ crow = [c \in Callers |-> None]
    /\ cnow = [c \in Callers |-> 0]
    /\ crefreshed = [c \in Callers |-> None]
    /\ cout = [c \in Callers |-> NoOutcome]
    /\ issued = 2
    /\ granted = <<UrnUser("urnA"), UrnUser("urnB")>>

EncIdle ==
    /\ IS_PRODUCTION = FALSE
    /\ ENCRYPTION_KEY = ""
    /\ initialization_checked = FALSE
    /\ fernet = "None"
    /\ lastCall = [op |-> "none", arg |-> <<>>, result |-> <<>>, raised |-> "NULL",
                   plain |-> None]
    /\ nCalls = 0

MigIdle ==
    /\ stored = StoredRow(<<"a">>, FALSE)
    /\ mpc = [m \in Migrators |-> "idle"]
    /\ mrow = [m \in Migrators |-> StoredRow(<<>>, FALSE)]
    /\ menc = [m \in Migrators |-> <<>>]
    /\ migrations = <<>>
    /\ saves = 0

SchedIdle ==
    /\ scheduler_task = 0
    /\ nstarts = 0
    /\ lpc = [i \in LoopTasks |-> "unborn"]
    /\ lcancel = [i \in LoopTasks |-> FALSE]
    /\ lout = NoScan
    /\ bqueue = {}
    /\ bpc = "idle"
    /\ bretries = 0
    /\ bout = "none"

(***************************************************************************)
(* The scan under database faults, and deletions by the tenant:            *)
(* services/tasks.py, backend/routes/settings.py                           *)
(***************************************************************************)
\* the status that marks a row delete_scheduled has removed: no query selects
\* it and no UPDATE matches it
Deleted == "deleted"

\* routes/settings.py lines 666-676:
\* DELETE FROM scheduled_posts WHERE id = $1 AND user_id = $2
delete_scheduled(ps, post_id, user_id) ==
    IF ps[post_id].status # Deleted /\ ps[post_id].user_id = user_id
    THEN [ps EXCEPT ![post_id].status = Deleted]
    ELSE ps

\* one DELETE request of a tenant
DeleteScheduled(post_id, user_id) ==
    /\ posts' = delete_scheduled(posts, post_id, user_id)
    /\ UNCHANGED <<now, accounts, script, LINKEDIN_USER_URN, wtask, wpc, wdue, wtokens,
                   wresult, calls, crashes, singles, tokVars, encVars, auxVars>>

\* tasks.py lines 116-125: the token lookup of line 118, or the status write
\* of lines 121-125, raises; control passes to the except clause of line 151
LookupRaises(w) ==
    /\ wpc[w] = "token"
    /\ wpc' = [wpc EXCEPT ![w] = "handler"]
    /\ wresult' = [wresult EXCEPT ![w] = [NoCall EXCEPT !.raised = "DatabaseError"]]
    /\ UNCHANGED <<now, accounts, posts, script, LINKEDIN_USER_URN, wtask, wdue, wtokens,
                   calls, crashes, singles, tokVars, encVars, auxVars>>

\* lines 141-146: the status write that follows the publish call raises
WriteRaises(w) ==
    /\ wpc[w] = "write"
    /\ wpc' = [wpc EXCEPT ![w] = "handler"]
    /\ wresult' = [wresult EXCEPT ![w].raised = "DatabaseError"]
    /\ UNCHANGED <<now, accounts, posts, script, LINKEDIN_USER_URN, wtask, wdue, wtokens,
                   calls, crashes, singles, tokVars, encVars, auxVars>>

\* lines 151-154: except Exception as e: update_post_status(post_id, 'failed',
\* str(e)).  When that write succeeds the loop goes on with the next due
\* post; when it raises as well nothing catches the exception inside the
\* for loop and the coroutine ends with it
HandlerWrite(w, ok) ==
    /\ wpc[w] = "handler"
    /\ IF ok
       THEN /\ posts' = update_post_status(posts, now, Head(wdue[w]), "failed",
                                           wresult[w].raised)
            /\ wdue' = [wdue EXCEPT ![w] = Tail(@)]
            /\ wpc' = [wpc EXCEPT ![w] = IF Tail(wdue[w]) = <<>> THEN "idle" ELSE "token"]
            /\ wtask' = [wtask EXCEPT ![w] = IF Tail(wdue[w]) = <<>> THEN "none" ELSE @]
            /\ UNCHANGED faults
       ELSE /\ faults < MaxFaults
            /\ faults' = faults + 1
            /\ wdue' = [wdue EXCEPT ![w] = <<>>]
            /\ wpc' = [wpc EXCEPT ![w] = "idle"]
            /\ wtask' = [wtask EXCEPT ![w] = "none"]
            /\ UNCHANGED posts
    /\ wtokens' = [wtokens EXCEPT ![w] = None]
    /\ wresult' = [wresult EXCEPT ![w] = NoCall]
    /\ UNCHANGED <<now, accounts, script, LINKEDIN_USER_URN, calls, crashes, singles,
                   tokVars, encVars, migVars, schedVars, rlVars, repoVars>>

(***************************************************************************)
(* Rate limiter: services/rate_limiter.py                                  *)
(***************************************************************************)
\* the user_id arguments: two tenants and the empty id of an anonymous request
RequestIds == Users \cup {""}

\* lines 56-58: if not user_id: user_id = "anonymous"
Bucket(user_id) == IF user_id = "" THEN "anonymous" ELSE user_id
Buckets == {Bucket(id) : id \in RequestIds}

\* lines 65-68: [ts for ts in self.requests[user_id] if ts > window_start]
CleanOld(timestamps, window_start) ==
    SelectSeq(timestamps, LAMBDA ts : ts > window_start)

NoCheck == [user_id |-> "NULL", allowed |-> FALSE, remaining |-> 0, at |-> 0]

\* the limiter that denies only when the count exceeds max_requests
is_allowed_off_by_one(reqs, user_id, t, limit, window) ==
    LET key == Bucket(user_id)
        kept == CleanOld(reqs[key], t - window)
        request_count == Len(kept)
        remaining == IF limit - request_count > 0 THEN limit - request_count ELSE 0
    IN  IF request_count > limit
        THEN [allowed |-> FALSE, remaining |-> 0, requests |-> [reqs EXCEPT ![key] = kept]]
        ELSE [allowed |-> TRUE, remaining |-> remaining - 1,
              requests |-> [reqs EXCEPT ![key] = Append(kept, t)]]

\* RateLimiter.is_allowed, lines 56-93, run under self.lock: what it returns
\* and the requests table it leaves
is_allowed(reqs, user_id, t, limit, window) ==
    LET key == Bucket(user_id)
        kept == CleanOld(reqs[key], t - window)
        request_count == Len(kept)
        remaining == IF limit - request_count > 0 THEN limit - request_count ELSE 0
    IN  IF request_count >= limit
        THEN [allowed |-> FALSE, remaining |-> 0, requests |-> [reqs EXCEPT ![key] = kept]]
        ELSE [allowed |-> TRUE, remaining |-> remaining - 1,
              requests |-> [reqs EXCEPT ![key] = Append(kept, t)]]

\* one call of is_allowed
IsAllowed(user_id) ==
    /\ nchecks < MaxChecks
    /\ nchecks' = nchecks + 1
    /\ LET r == is_allowed(requests, user_id, current_time, max_requests, window_seconds)
       IN  /\ requests' = r.requests
           /\ rlast' = [user_id |-> user_id, allowed |-> r.allowed,
                        remaining |-> r.remaining, at |-> current_time]
           /\ admitted' = IF r.allowed
                          THEN [admitted EXCEPT ![Bucket(user_id)] = Append(@, current_time)]
                          ELSE admitted
    /\ UNCHANGED <<now, accounts, pipeVars, tokVars, encVars, migVars, schedVars, faults,
                   max_requests, window_seconds, current_time, repoVars>>

\* time.time() moves on
RateTick ==
    /\ current_time < MaxTime
    /\ current_time' = current_time + 1
    /\ UNCHANGED <<now, accounts, pipeVars, tokVars, encVars, migVars, schedVars, faults,
                   max_requests, window_seconds, requests, admitted, rlast, nchecks, repoVars>>

\* lines 37-42: a limiter that has seen no request
RateIdle ==
    /\ requests = [k \in Buckets |-> <<>>]
    /\ current_time = 0
    /\ admitted = [k \in Buckets |-> <<>>]
    /\ rlast = NoCheck
    /\ nchecks = 0

(***************************************************************************)
(* Tenant-bound repository: backend/repositories/base.py                   *)
(***************************************************************************)
RecIds == 1..MaxRows
Values == {"x", "y"}
\* a keyword argument that was not passed, or was passed as None
NoValue == "NULL"
\* the value the table gives to a column the INSERT leaves out
DefaultValue == "x"
RepoRow(user_id, value) == [user_id |-> user_id, value |-> value]

\* **filters of get_all and count, **data of create and update
Keywords == [user_id : Users \cup {NoValue}, value : Values \cup {NoValue}]

\* _user_filter, lines 59-61, applied to one row
user_filter(row, bound) == row.user_id = bound

\* lines 135-137 and 271-273: one more WHERE clause per keyword passed
Filtered(row, filters) ==
    /\ filters.user_id # NoValue => row.user_id = filters.user_id
    /\ filters.value # NoValue => row.value = filters.value

\* get_all, lines 132-150: the rows returned, each with its id
get_all(tbl, bound, filters) ==
    {[id |-> i, user_id |-> Val(tbl[i]).user_id, value |-> Val(tbl[i]).value] :
        i \in {j \in RecIds : /\ tbl[j] # None
                               /\ user_filter(Val(tbl[j]), bound)
                               /\ Filtered(Val(tbl[j]), filters)}}

\* get_by_id, lines 163-171: the row as a one-element set, or no row
get_by_id(tbl, bound, record_id) ==
    {[id |-> i, user_id |-> Val(tbl[i]).user_id, value |-> Val(tbl[i]).value] :
        i \in {j \in RecIds : /\ j = record_id
                               /\ tbl[j] # None
                               /\ user_filter(Val(tbl[j]), bound)}}

\* count, lines 268-275
count(tbl, bound, filters) == Cardinality(get_all(tbl, bound, filters))

\* exists, lines 287-300
exists(tbl, bound, record_id) == get_by_id(tbl, bound, record_id) # {}

\* create, lines 184-194: user_id is overwritten with the bound user, None
\* values are dropped and the table fills in its default
create(tbl, new_id, bound, data) ==
    [tbl EXCEPT ![new_id] =
        Some(RepoRow(bound, IF data.value = NoValue THEN DefaultValue ELSE data.value))]

\* the update whose WHERE clause names the id only
update_by_id_only(tbl, bound, record_id, data) ==
    IF data.user_id = NoValue /\ data.value = NoValue
    THEN tbl
    ELSE IF tbl[record_id] # None
    THEN [tbl EXCEPT ![record_id] =
            Some(RepoRow(IF data.user_id = NoValue THEN Val(tbl[record_id]).user_id
                         ELSE data.user_id,
                         IF data.value = NoValue THEN Val(tbl[record_id]).value
                         ELSE data.value))]
    ELSE tbl

\* update, lines 208-229: nothing without data; otherwise UPDATE ... SET the
\* columns passed WHERE id = record_id AND user_id = bound
update(tbl, bound, record_id, data) ==
    IF data.user_id = NoValue /\ data.value = NoValue
    THEN tbl
    ELSE IF tbl[record_id] # None /\ user_filter(Val(tbl[record_id]), bound)
    THEN [tbl EXCEPT ![record_id] =
            Some(RepoRow(IF data.user_id = NoValue THEN Val(tbl[record_id]).user_id
                         ELSE data.user_id,
                         IF data.value = NoValue THEN Val(tbl[record_id]).value
                         ELSE data.value))]
    ELSE tbl

\* delete, lines 242-256: DELETE ... WHERE id = record_id AND user_id = bound
delete(tbl, bound, record_id) ==
    IF tbl[record_id] # None /\ user_filter(Val(tbl[record_id]), bound)
    THEN [tbl EXCEPT ![record_id] = None]
    ELSE tbl

NoQuery == [op |-> "none", bound |-> "NULL", id |-> 0, data |-> RepoRow(NoValue, NoValue),
            rows |-> {}, n |-> 0]
Query(op, bound, id, data, rows, n) ==
    [op |-> op, bound |-> bound, id |-> id, data |-> data, rows |-> rows, n |-> n]

\* a repository bound to user `bound` answers a read
RepoGetAll(bound, filters) ==
    /\ qlast' = Query("get_all", bound, 0, filters, get_all(table, bound, filters), 0)
    /\ UNCHANGED <<now, accounts, pipeVars, tokVars, encVars, migVars, schedVars, faults,
                   rlVars, table, next_id>>

RepoGetById(bound, record_id) ==
    /\ qlast' = Query("get_by_id", bound, record_id, RepoRow(NoValue, NoValue),
                      get_by_id(table, bound, record_id), 0)
    /\ UNCHANGED <<now, accounts, pipeVars, tokVars, encVars, migVars, schedVars, faults,
                   rlVars, table, next_id>>

RepoCount(bound, filters) ==
    /\ qlast' = Query("count", bound, 0, filters, {}, count(table, bound, filters))
    /\ UNCHANGED <<now, accounts, pipeVars, tokVars, encVars, migVars, schedVars, faults,
                   rlVars, table, next_id>>

RepoExists(bound, record_id) ==
    /\ qlast' = Query("exists", bound, record_id, RepoRow(NoValue, NoValue), {},
                      IF exists(table, bound, record_id) THEN 1 ELSE 0)
    /\ UNCHANGED <<now, accounts, pipeVars, tokVars, encVars, migVars, schedVars, faults,
                   rlVars, table, next_id>>

\* a repository bound to user `bound` writes
RepoCreate(bound, data) ==
    /\ next_id <= MaxRows
    /\ table' = create(table, next_id, bound, data)
    /\ next_id' = next_id + 1
    /\ qlast' = Query("create", bound, next_id, data, {}, 0)
    /\ UNCHANGED <<now, accounts, pipeVars, tokVars, encVars, migVars, schedVars, faults,
                   rlVars>>

RepoUpdate(bound, record_id, data) ==
    /\ table' = update(table, bound, record_id, data)
    /\ qlast' = Query("update", bound, record_id, data, {}, 0)
    /\ UNCHANGED <<now, accounts, pipeVars, tokVars, encVars, migVars, schedVars, faults,
                   rlVars, next_id>>

RepoDelete(bound, record_id) ==
    /\ table' = delete(table, bound, record_id)
    /\ qlast' = Query("delete", bound, record_id, RepoRow(NoValue, NoValue), {}, 0)
    /\ UNCHANGED <<now, accounts, pipeVars, tokVars, encVars, migVars, schedVars, faults,
                   rlVars, next_id>>

\* an empty table
RepoIdle ==
    /\ table = [i \in RecIds |-> None]
    /\ next_id = 1
    /\ qlast = NoQuery

ExtIdle ==
    /\ faults = 0
    /\ max_requests = 1
    /\ window_seconds = 1
    /\ RateIdle
    /\ RepoIdle

Init ==
    /\ now = 0
    /\ posts \in [PostIds -> [user_id : Users, scheduled_time : {0, ScanInterval},
                              status : {"pending"}, error_message : {"NULL"},
                              published_at : {None}]]
    /\ \A p \in PostIds : posts[p].user_id = PostUser(p)
    /\ accounts \in [Urns -> UNION {PipeRows(u) : u \in Urns}]
    /\ \A u \in Urns : accounts[u] \in PipeRows(u)
    /\ script \in Scripts
    /\ LINKEDIN_USER_URN \in BOOLEAN
    /\ PipeIdle
    /\ TokIdle
    /\ CLIENT_CONFIGURED = TRUE
    /\ EncIdle
    /\ MigIdle
    /\ SchedIdle
    /\ ExtIdle

Next ==
    \/ \E w \in Workers : StartScan(w)
    \/ \E w \in Workers : ScanQueryFails(w)
    \/ \E w \in Workers, p \in PostIds : StartSingle(w, p)
    \/ \E w \in Workers : GetToken(w)
    \/ \E w \in Workers : Publish(w)
    \/ \E w \in Workers : WriteBack(w)
    \/ \E w \in Workers : WorkerLost(w)
    \/ Tick

Spec == Init /\ [][Next]_vars

\* the pipeline under its scheduling: Celery beat sends the scan every
\* ScanInterval seconds for ever and a worker that has started a task runs
\* it to its end unless the worker is lost
Fairness ==
    \A w \in Workers :
        /\ WF_vars(StartScan(w))
        /\ WF_vars(GetToken(w))
        /\ WF_vars(Publish(w))
        /\ WF_vars(WriteBack(w))

\* one post due at the start and one due at the next scan, the first tenant
\* with any credential and the second one connected
InitLive ==
    /\ now = 0
    /\ posts = [p \in PostIds |->
                  [user_id |-> PostUser(p),
                   scheduled_time |-> IF p = 1 THEN 0 ELSE ScanInterval,
                   status |-> "pending", error_message |-> "NULL", published_at |-> None]]
    /\ accounts \in [Urns -> UNION {PipeRows(u) : u \in Urns}]
    /\ accounts["urnA"] \in PipeRows("urnA")
    /\ accounts["urnB"] = Some(TokenRow("urnB", Some(InitialToken("urnB")), None,
                                        Some(2 * ScanInterval), Some(UrnUser("urnB"))))
    /\ script \in {<<"201">>, <<"Timeout">>}
    /\ LINKEDIN_USER_URN \in BOOLEAN
    /\ PipeIdle
    /\ TokIdle
    /\ CLIENT_CONFIGURED = TRUE
    /\ EncIdle
    /\ MigIdle
    /\ SchedIdle
    /\ ExtIdle

SpecLive == InitLive /\ [][Next]_vars /\ Fairness

\* credentials found in the vault when the refresh protocol runs
TokRows(u) ==
    {None} \cup
    {Some(TokenRow(u, Some(InitialToken(u)), r, e, Some(UrnUser(u)))) :
        r \in {None, Some(InitialToken(u))}, e \in {None, Some(2 * ScanInterval)}}

\* the refresh protocol: concurrent callers, re-authorizations, passing time
InitTok ==
    /\ now = 0
    /\ accounts \in [Urns -> UNION {TokRows(u) : u \in Urns}]
    /\ \A u \in Urns : accounts[u] \in TokRows(u)
    /\ PipeFixed
    /\ TokIdle
    /\ CLIENT_CONFIGURED \in BOOLEAN
    /\ EncIdle
    /\ MigIdle
    /\ SchedIdle
    /\ ExtIdle

NextTok ==
    \/ \E c \in Callers, urn \in Urns : TokCall(c, urn)
    \/ \E c \in Callers, answer \in RefreshAnswers : TokRefresh(c, answer)
    \/ \E c \in Callers : TokSave(c)
    \/ \E urn \in Urns, user_id \in Users : ExchangeCode(urn, user_id, Some(3 * ScanInterval))
    \/ Tick

SpecTok == InitTok /\ [][NextTok]_vars

\* the encryption module in one process: any configuration, any calls
InitEnc ==
    /\ now = 0
    /\ accounts = [u \in Urns |-> None]
    /\ PipeFixed
    /\ TokIdle
    /\ CLIENT_CONFIGURED = TRUE
    /\ IS_PRODUCTION \in BOOLEAN
    /\ ENCRYPTION_KEY \in {"", "valid", "invalid"}
    /\ initialization_checked = FALSE
    /\ fernet = "None"
    /\ lastCall = [op |-> "none", arg |-> <<>>, result |-> <<>>, raised |-> "NULL",
                   plain |-> None]
    /\ nCalls = 0
    /\ MigIdle
    /\ SchedIdle
    /\ ExtIdle

NextEnc ==
    \/ \E x \in Strings : EncryptCall(x)
    \/ \E x \in Strings \cup {lastCall.result} : DecryptCall(x)

SpecEnc == InitEnc /\ [][NextEnc]_vars

\* credentials stored before encryption was introduced
LegacyValues == {x \in Strings : x # <<>> /\ ~StartsWithTag(x)}

\* two processes that read the same legacy row, with a key configured, while
\* a newer credential may be saved
InitMig ==
    /\ now = 0
    /\ accounts = [u \in Urns |-> None]
    /\ PipeFixed
    /\ TokIdle
    /\ CLIENT_CONFIGURED = TRUE
    /\ IS_PRODUCTION \in BOOLEAN
    /\ ENCRYPTION_KEY = "valid"
    /\ initialization_checked = FALSE
    /\ fernet = "None"
    /\ lastCall = [op |-> "none", arg |-> <<>>, result |-> <<>>, raised |-> "NULL",
                   plain |-> None]
    /\ nCalls = 0
    /\ stored \in {StoredRow(x, FALSE) : x \in LegacyValues}
    /\ mpc = [m \in Migrators |-> "idle"]
    /\ mrow = [m \in Migrators |-> StoredRow(<<>>, FALSE)]
    /\ menc = [m \in Migrators |-> <<>>]
    /\ migrations = <<>>
    /\ saves = 0
    /\ SchedIdle
    /\ ExtIdle

NextMig ==
    \/ \E m \in Migrators : MigRead(m)
    \/ \E m \in Migrators : MigWrite(m)
    \/ \E x \in LegacyValues : MigSave(x)

SpecMig == InitMig /\ [][NextMig]_vars

\* the two scanners on their own
InitSched ==
    /\ now = 0
    /\ accounts = [u \in Urns |-> None]
    /\ PipeFixed
    /\ TokIdle
    /\ CLIENT_CONFIGURED = TRUE
    /\ EncIdle
    /\ MigIdle
    /\ SchedIdle
    /\ ExtIdle

NextSched ==
    \/ StartScheduler
    \/ StopScheduler
    \/ \E i \in LoopTasks, imports_ok \in BOOLEAN, answer \in ScanAnswers :
          LoopScan(i, imports_ok, answer)
    \/ \E i \in LoopTasks : LoopSleep(i)
    \/ \E i \in LoopTasks : LoopCancelled(i)
    \/ BeatSend
    \/ \E r \in 0..max_retries : TaskStart(r)
    \/ \E answer \in ScanAnswers : TaskRun(answer)

\* the event loop runs a task that is ready, beat and the worker keep running
FairnessSched ==
    /\ \A i \in LoopTasks :
          /\ WF_vars(\E imports_ok \in BOOLEAN, answer \in ScanAnswers :
                        LoopScan(i, imports_ok, answer))
          /\ WF_vars(LoopSleep(i))
          /\ WF_vars(LoopCancelled(i))
    /\ WF_vars(BeatSend)
    /\ WF_vars(\E r \in 0..max_retries : TaskStart(r))
    /\ WF_vars(\E answer \in ScanAnswers : TaskRun(answer))

SpecSched == InitSched /\ [][NextSched]_vars /\ FairnessSched

\* the dispatcher with two posts due at once, database faults and deletions
InitOps ==
    /\ now = 0
    /\ PipeFixed
    /\ accounts \in [Urns -> UNION {PipeRows(u) : u \in Urns}]
    /\ \A u \in Urns : accounts[u] \in PipeRows(u)
    /\ TokIdle
    /\ CLIENT_CONFIGURED = TRUE
    /\ EncIdle
    /\ MigIdle
    /\ SchedIdle
    /\ ExtIdle

NextOps ==
    \/ \E w \in Workers : StartScan(w)
    \/ \E w \in Workers : GetToken(w)
    \/ \E w \in Workers : Publish(w)
    \/ \E w \in Workers : WriteBack(w)
    \/ \E w \in Workers : LookupRaises(w)
    \/ \E w \in Workers : WriteRaises(w)
    \/ \E w \in Workers, ok \in BOOLEAN : HandlerWrite(w, ok)
    \/ \E p \in PostIds, u \in Users : DeleteScheduled(p, u)

SpecOps == InitOps /\ [][NextOps]_vars

\* a limiter constructed with some max_requests and window_seconds
InitRate ==
    /\ now = 0
    /\ PipeFixed
    /\ accounts = [u \in Urns |-> None]
    /\ TokIdle
    /\ CLIENT_CONFIGURED = TRUE
    /\ EncIdle
    /\ MigIdle
    /\ SchedIdle
    /\ faults = 0
    /\ max_requests \in 1..MaxRequests
    /\ window_seconds \in 1..MaxWindow
    /\ RateIdle
    /\ RepoIdle

NextRate ==
    \/ \E id \in RequestIds : IsAllowed(id)
    \/ RateTick

SpecRate == InitRate /\ [][NextRate]_vars

\* repositories bound to either tenant work on one table
InitRepo ==
    /\ now = 0
    /\ PipeFixed
    /\ accounts = [u \in Urns |-> None]
    /\ TokIdle
    /\ CLIENT_CONFIGURED = TRUE
    /\ EncIdle
    /\ MigIdle
    /\ SchedIdle
    /\ ExtIdle

NextRepo ==
    \/ \E bound \in Users, filters \in Keywords : RepoGetAll(bound, filters)
    \/ \E bound \in Users, record_id \in RecIds : RepoGetById(bound, record_id)
    \/ \E bound \in Users, filters \in Keywords : RepoCount(bound, filters)
    \/ \E bound \in Users, record_id \in RecIds : RepoExists(bound, record_id)
    \/ \E bound \in Users, data \in Keywords : RepoCreate(bound, data)
    \/ \E bound \in Users, record_id \in RecIds, data \in Keywords :
          RepoUpdate(bound, record_id, data)
    \/ \E bound \in Users, record_id \in RecIds : RepoDelete(bound, record_id)

SpecRepo == InitRepo /\ [][NextRepo]_vars

(***************************************************************************)
(* Properties of the scheduled-publish pipeline                            *)
(***************************************************************************)
Accepted(p) == {i \in DOMAIN calls[p] : calls[p][i].http = "201"}
AllIdle == \A w \in Workers : wpc[w] = "idle"
NoCredential(user_id) ==
    \A tokens \in get_token_by_user_id(accounts, user_id) :
        tokens = None \/ Val(tokens).access_token = None

\* C1: no post is ever published twice -- for every post the provider accepts
\* at most one publish call, whatever the interleaving of scans, single-post
\* tasks and redelivered tasks.
C1_AtMostOncePublished ==
    \A p \in PostIds : Cardinality(Accepted(p)) <= 1

C4_NoCredentialFailsAtOnce ==
    /\ [](\A p \in PostIds : NoCredential(posts[p].user_id) => calls[p] = <<>>)
    /\ [][\A w \in Workers :
            (/\ wpc[w] = "token"
             /\ NoCredential(posts[Head(wdue[w])].user_id)
             /\ <<wpc[w], wdue[w]>>' # <<wpc[w], wdue[w]>>
             /\ crashes' = crashes)
            => LET p == Head(wdue[w])
               IN  /\ posts[p].status = "pending" =>
                        /\ posts'[p].status = "failed"
                        /\ posts'[p].error_message = NotConnectedMsg
                   /\ posts'[p].status # "pending"
                   /\ calls' = calls
                   /\ wpc'[w] # "publish"
                   /\ wdue'[w] = Tail(wdue[w])]_vars

\* a post failed as not connected
C4_Witness ==
    \E p \in PostIds :
        /\ NoCredential(posts[p].user_id)
        /\ posts[p].status = "failed"
        /\ posts[p].error_message = NotConnectedMsg

\* C5: a post that failed on provider-transient answers only was tried
\* max_retries + 1 times before it was marked failed.
C5_TransientRetriedToMax ==
    \A p \in PostIds :
        (/\ posts[p].status = "failed"
         /\ calls[p] # <<>>
         /\ \A i \in DOMAIN calls[p] : calls[p][i].http \in Transient)
        => Len(calls[p]) = max_retries + 1

\* C6: when the provider answers 503 three times and then accepts, a post for
\* which publish calls were made does not end failed.
C6_OutageThenSuccessPublishes ==
    \A p \in PostIds :
        (/\ script = <<"503", "503", "503", "201">>
         /\ calls[p] # <<>>
         /\ posts[p].status # "pending")
        => posts[p].status = "published"

\* C7: a post the provider accepted ends published with a published-at
\* timestamp, never failed.
C7_AcceptedEndsPublished ==
    \A p \in PostIds :
        (/\ Accepted(p) # {}
         /\ posts[p].scheduled_time <= now
         /\ ~NoCredential(posts[p].user_id)
         /\ posts[p].status # "pending")
        => (posts[p].status = "published" /\ posts[p].published_at # None)

\* C8: no publish call is made with a stored token that is expired or within
\* the buffer window of its expiry.
C8_NoStaleTokenHanded ==
    \A p \in PostIds : \A i \in DOMAIN calls[p] : ~calls[p][i].stale

Terminal(p) == posts[p].status \in {"published", "failed"}
Due(p) == posts[p].status = "pending" /\ posts[p].scheduled_time <= now
Threw(res) == res.raised # "NULL" \/ res.ret.kind = "None"

ScanFailed(res) == res.answer \in {"import_error", "query_failed", "raised"}

\* C19: no scan, whatever its failure, ends the scanning loop: after
\* process_due_posts the loop is at its sleep, and for as long as a loop task
\* is the started scanner it is again and again at a scan and at the sleep;
\* and the worker again and again runs the scan task beat sends, whatever
\* the earlier scan tasks did.
C19_ScanFailureKeepsLoop ==
    /\ [][\A i \in LoopTasks :
            (lpc[i] = "scan" /\ ~lcancel[i] /\ lpc'[i] # "scan") => lpc'[i] = "sleep"]_vars
    /\ \A i \in LoopTasks :
          /\ []<>(scheduler_task # i \/ lpc[i] = "scan")
          /\ []<>(scheduler_task # i \/ lpc[i] = "sleep")
    /\ []<>(bpc = "run")
    /\ []<>(bpc = "idle")

\* the started loop is at the next scan after a scan that failed, and the
\* worker runs a scan task after one whose query failed
C19_Witness ==
    /\ \E i \in LoopTasks :
          scheduler_task = i /\ lpc[i] = "scan" /\ lout.answer = "raised"
    /\ bpc = "run"
    /\ bout = "query_failed"

TokenValues == 1..MaxIssued
CauseDescriptions == {NotConnectedMsg, "RuntimeError", "AttributeError"} \cup Transport \cup Http

\* what the worker would write had the publish call been made with token t
WouldWrite(w, t) ==
    DispatchWrite(post_to_linkedin(Some(t), LINKEDIN_USER_URN,
                                   IF wresult[w].sent THEN wresult[w].http ELSE "201"))

Finished(c) == cpc[c] = "done" /\ crow[c] # None
InWindow(c) ==
    /\ Val(crow[c]).expires_at # None
    /\ Val(Val(crow[c]).expires_at) - cnow[c] <= refresh_buffer
ReturnedStored(c) ==
    /\ cout[c].kind = "return"
    /\ cout[c].token = Val(crow[c]).access_token
    /\ ~cout[c].called
    /\ ~cout[c].wrote
ReturnedNew(c) ==
    /\ cout[c].kind = "return"
    /\ cout[c].called
    /\ crefreshed[c] # None
    /\ cout[c].token = Val(crefreshed[c]).access_token
    /\ cout[c].token # Val(crow[c]).access_token

\* C9 as stated: a call that finds the stored expiry set and within the
\* buffer window calls the provider and returns the new token; any other
\* call returns the stored token, calls nobody and writes nothing.
C9_RefreshExactlyInWindow ==
    \A c \in Callers :
        Finished(c) => IF InWindow(c) THEN ReturnedNew(c) ELSE ReturnedStored(c)

\* C9 amended: inside the window, with a stored refresh token and a
\* configured client the provider is called, and when it issues a new access
\* token that token is returned; when it does not, the call raises; with no
\* refresh token stored the call raises without a provider call; outside the
\* window the stored token is returned, nobody is called, nothing is written.
C9_RefreshInWindowWhenPossible ==
    \A c \in Callers :
        Finished(c) =>
            IF ~InWindow(c) THEN ReturnedStored(c)
            ELSE IF Val(crow[c]).refresh_token = None
            THEN /\ cout[c].kind = "raise"
                 /\ cout[c].exc = "TokenRefreshError"
                 /\ ~cout[c].called
                 /\ ~cout[c].wrote
            ELSE IF ~CLIENT_CONFIGURED
            THEN cout[c].kind = "raise" /\ ~cout[c].called /\ ~cout[c].wrote
            ELSE /\ cout[c].called
                 /\ IF crefreshed[c] # None THEN ReturnedNew(c)
                    ELSE cout[c].kind = "raise" /\ ~cout[c].wrote

\* a refresh made exactly at the edge of the buffer window
C9_Witness ==
    \E c \in Callers :
        /\ Finished(c)
        /\ InWindow(c)
        /\ Val(Val(crow[c]).expires_at) - cnow[c] = refresh_buffer
        /\ ReturnedNew(c)

\* C10: a successful refresh has written the new access token, refresh token
\* and expiry to the vault when the call returns, and from then on the vault
\* never again shows the access token the call had read before refreshing.
C10_WrittenBeforeReturned ==
    /\ [](\A c \in Callers :
            (cpc[c] = "done" /\ cout[c].kind = "return" /\ cout[c].called) =>
                /\ cout[c].wrote
                /\ accounts[curn[c]] # None
                /\ Val(accounts[curn[c]]).access_token # Val(crow[c]).access_token)
    /\ [][\A c \in Callers :
            (cpc[c] = "save" /\ cpc'[c] = "done") =>
                /\ accounts'[curn[c]] # None
                /\ Val(accounts'[curn[c]]).access_token = Val(crefreshed[c]).access_token
                /\ Val(accounts'[curn[c]]).refresh_token = Val(crefreshed[c]).refresh_token
                /\ Val(accounts'[curn[c]]).expires_at = Val(crefreshed[c]).expires_at
                /\ cout'[c].token = Val(crefreshed[c]).access_token]_vars

\* a returned refresh whose values are the ones in the vault
C10_Witness ==
    \E c \in Callers :
        /\ cpc[c] = "done"
        /\ cout[c].kind = "return"
        /\ cout[c].wrote
        /\ Val(accounts[curn[c]]).access_token = cout[c].token
        /\ Val(accounts[curn[c]]).expires_at # Val(crow[c]).expires_at

NotConnected == <<"TokenNotFoundError", "No token found for LinkedIn URN">>
RefreshUnavailable ==
    <<"TokenRefreshError", "No refresh token available to refresh access token">>
RefreshFailed ==
    {<<"TokenRefreshError", "Failed to refresh LinkedIn token">>,
     <<"TokenRefreshError", "LinkedIn refresh response did not contain access_token">>}
Signal(c) == <<cout[c].exc, cout[c].msg>>
Raised(c) == cpc[c] = "done" /\ cout[c].kind = "raise"
\* the provider accepted the request and its body could not be read: not a
\* rejection
Unreadable(c) == cout[c].exc = "JSONDecodeError"

\* C11: a call that finds no row raises the not-connected error; a call that
\* finds a near-expiry row without a refresh token raises the refresh-unavailable
\* error and has not called the provider; a call whose refresh request the
\* provider turned down raises a refresh-failed error; the three signals
\* (exception and message) are pairwise different; and the step in which a
\* call raises leaves the vault as it was.
C11_DistinctErrorsVaultUntouched ==
    /\ [](\A c \in Callers :
            Raised(c) =>
                /\ ~cout[c].wrote
                /\ crow[c] = None => Signal(c) = NotConnected /\ ~cout[c].called
                /\ (crow[c] # None /\ InWindow(c) /\ ~Truthy(Val(crow[c]).refresh_token))
                       => Signal(c) = RefreshUnavailable /\ ~cout[c].called
                /\ cout[c].called =>
                       /\ Signal(c) \in RefreshFailed \/ Unreadable(c)
                       /\ Signal(c) # RefreshUnavailable
                       /\ Signal(c) # NotConnected
                /\ Signal(c) = RefreshUnavailable => Signal(c) # NotConnected)
    /\ [][\A c \in Callers :
            (/\ cpc[c] \in {"idle", "done", "refresh"}
             /\ cpc'[c] = "done"
             /\ cout'[c].kind = "raise"
             /\ <<cpc[c], curn[c], crow[c], cnow[c], cout[c]>>' #
                    <<cpc[c], curn[c], crow[c], cnow[c], cout[c]>>)
            => accounts' = accounts]_vars

\* one call ended refresh unavailable, another refresh failed, and the rows
\* both had read are still in the vault
C11_Witness ==
    \E c, d \in Callers :
        /\ Raised(c) /\ Signal(c) = RefreshUnavailable
        /\ Raised(d) /\ Signal(d) \in RefreshFailed /\ cout[d].called
        /\ accounts[curn[c]] = crow[c]
        /\ accounts[curn[d]] = crow[d]

(***************************************************************************)
(* Properties of the credential vault                                      *)
(***************************************************************************)
IssuedTo(token, t) == token = None \/ granted[Val(token)] = t

\* C15: whatever saves and refreshes have happened, a lookup by tenant id
\* returns nothing or a row whose user_id is that tenant and whose access and
\* refresh tokens the provider issued to that tenant.
C15_LookupReturnsOwnRow ==
    \A t \in Users : \A tokens \in get_token_by_user_id(accounts, t) :
        tokens # None =>
            /\ Val(tokens).user_id = Some(t)
            /\ IssuedTo(Val(tokens).access_token, t)
            /\ IssuedTo(Val(tokens).refresh_token, t)

\* a tenant has taken over the account of the other tenant while a refresh
\* of that account was saved, and finds a row of its own
C15_Witness ==
    \E u \in Urns, c \in Callers :
        /\ cpc[c] = "done" /\ cout[c].wrote /\ curn[c] = u
        /\ \E i \in 3..Len(granted) : granted[i] # UrnUser(u)
        /\ \E t \in Users : \E tokens \in get_token_by_user_id(accounts, t) :
              tokens # None /\ Val(Val(tokens).access_token) > 2

RowsOf(t) == {u \in Urns : accounts[u] # None /\ Val(accounts[u]).user_id = Some(t)}

\* C16: after any sequence of saves the vault holds at most one credential
\* row per tenant id.
C16_OneRowPerTenant ==
    \A t \in Users : Cardinality(RowsOf(t)) <= 1

\* C17: a process that writes a credential row writes values derived from the
\* row as it is at the time of the write: when a refresh is stored, the row
\* is still the one the refreshing call had read.
C17_NoWriteFromStaleRead ==
    [][\A c \in Callers :
          (cpc[c] = "save" /\ cpc'[c] = "done") => accounts[curn[c]] = crow[c]]_vars

(***************************************************************************)
(* Properties of the encryption layer                                      *)
(***************************************************************************)
StrictNoKey == IS_PRODUCTION /\ ENCRYPTION_KEY = ""

\* C3: in strict mode without a key every encrypt_value call on a non-empty
\* value raises EncryptionKeyMissingError, the first call and every later
\* one, so no call returns a value that could be stored.  (decrypt_value of
\* an untagged value returns it unchanged without looking at the key; the
\* statement checked is the one about encrypt_value.)
C3_StrictEncryptAlwaysRaises ==
    (StrictNoKey /\ lastCall.op = "encrypt_value" /\ lastCall.arg # <<>>)
    => lastCall.raised = "EncryptionKeyMissingError"

\* C12: decrypting what encrypt_value returned for a non-empty string gives
\* the string back, without raising, in every configuration in which
\* encrypt_value returned, also for strings that begin with the tag.
C12_RoundTrip ==
    (/\ lastCall.op = "decrypt_value"
     /\ lastCall.plain # None
     /\ Val(lastCall.plain) # <<>>)
    => (lastCall.raised = "NULL" /\ lastCall.result = Val(lastCall.plain))

\* C13: decrypt_value of a non-empty value that was stored without having gone
\* through encryption returns the value unchanged and does not raise, whatever
\* the mode and the key: no such value is taken for ciphertext.
C13_LegacyPlaintextUnchanged ==
    (/\ lastCall.op = "decrypt_value"
     /\ lastCall.arg \in Strings
     /\ lastCall.arg # <<>>)
    => (lastCall.raised = "NULL" /\ lastCall.result = lastCall.arg)

(***************************************************************************)
(* Properties of the credential migration                                  *)
(***************************************************************************)
Tried(m) == mpc[m] = "done" /\ menc[m] # <<>>
EncryptedOnce(row) ==
    /\ row.is_encrypted
    /\ StartsWithTag(row.access_token)
    /\ FernetValid(Tail(row.access_token))
    /\ FernetDecrypt(Tail(row.access_token)) \in LegacyValues

Running(i) == lpc[i] \in {"scan", "sleep"} /\ ~lcancel[i]
Stopped(i) == lcancel[i] \/ lpc[i] = "ended"

C21_StartStopIdempotent ==
    [][ /\ Cardinality({i \in LoopTasks : Running(i)}) <= 1
        /\ Cardinality({i \in LoopTasks : Running(i)'}) <= 1
        /\ (nstarts' # nstarts => \A i \in LoopTasks : ~Running(i))
        /\ \A i \in LoopTasks :
              /\ (lcancel'[i] /\ ~lcancel[i]) => scheduler_task = i
              /\ Stopped(i) => /\ Stopped(i)'
                               /\ ~(lpc[i] = "scan" /\ lpc'[i] = "sleep")
      ]_vars

\* a first loop was started and stopped and has ended, a second one was
\* started after it and is the registered one
C21_Witness ==
    nstarts = 2 /\ scheduler_task = 2 /\ lpc[1] = "ended" /\ Running(2)

\* ---------------------------------------------------------------------------
\* C22: for every post at most one execution attempt (token lookup, publish
\* call, status write) is in flight at any time -- no two workers are inside
\* an attempt for the same post.
InFlight(w, p) == wpc[w] \in {"token", "publish", "write"} /\ Head(wdue[w]) = p

C22_OneAttemptInFlight ==
    \A p \in PostIds : Cardinality({w \in Workers : InFlight(w, p)}) <= 1

\* ---------------------------------------------------------------------------
\* C23: every failure of a provider call made by the refresh protocol reaches
\* the caller of get_access_token_for_urn as one of the typed auth errors; no
\* raw transport exception escapes.
TypedAuthErrors ==
    {"AuthProviderError", "TokenRefreshError", "TokenNotFoundError", "AuthConfigurationError"}

C23_OnlyTypedAuthErrors ==
    \A c \in Callers : cout[c].kind = "raise" => cout[c].exc \in TypedAuthErrors

\* ---------------------------------------------------------------------------
\* C24: a refresh token is presented to the provider at most once -- no two
\* callers have each had a refresh request answered with a new access token
\* for the same refresh token.
Presented(c) ==
    /\ crow[c] # None
    /\ cpc[c] = "save" \/ (cpc[c] = "done" /\ cout[c].called /\ cout[c].kind = "return")

C24_RefreshTokenPresentedOnce ==
    \A c1, c2 \in Callers :
        (c1 # c2 /\ Presented(c1) /\ Presented(c2))
            => Val(crow[c1]).refresh_token # Val(crow[c2]).refresh_token

\* ---------------------------------------------------------------------------
\* C25: a successful refresh leaves the credential's owning tenant unchanged:
\* in the step in which get_access_token_for_urn stores the refreshed
\* credential of a row owned by tenant t, the row keeps user_id t and
\* get_token_by_user_id(t) afterwards yields the refreshed access token.
C25_RefreshKeepsTenant ==
    [][\A c \in Callers :
          (/\ cpc[c] = "save"
           /\ cpc'[c] = "done"
           /\ accounts[curn[c]] # None
           /\ Val(accounts[curn[c]]).user_id # None)
          => LET t == Val(Val(accounts[curn[c]]).user_id)
             IN  /\ Val(accounts'[curn[c]]).user_id = Some(t)
                 /\ \E row \in get_token_by_user_id(accounts', t) :
                       /\ row # None
                       /\ Val(row).access_token = cout'[c].token]_vars

\* ---------------------------------------------------------------------------
\* C26: every publish call made for a post uses the credential of the post's
\* own tenant: the access token was read from a row of that tenant and the
\* author the post is published under is an account of that tenant.
AccountsOf(t) ==
    {u \in Urns : accounts[u] # None /\ Val(accounts[u]).user_id = Some(t)}

C26_PublishUsesOwnTenant ==
    \A p \in PostIds : \A i \in DOMAIN calls[p] :
        /\ calls[p][i].user_id = Some(posts[p].user_id)
        /\ calls[p][i].author \in AccountsOf(posts[p].user_id)

\* ---------------------------------------------------------------------------
\* C27: within one scan the failure of one due post does not keep the
\* remaining due posts from being processed: a scan ends only with the last
\* post of the list its query returned.
C27_ScanAttemptsEveryDuePost ==
    [][\A w \in Workers :
          (wpc[w] # "idle" /\ wpc'[w] = "idle") => Len(wdue[w]) = 1]_vars

\* ---------------------------------------------------------------------------
\* C28: a post whose deletion completed before the dispatcher starts the
\* publish call for it is never published, and no later status write brings
\* the deleted row back.
C28_DeletedNeverPublished ==
    [][\A p \in PostIds :
          /\ Len(calls'[p]) > Len(calls[p]) => posts[p].status # Deleted
          /\ posts[p].status = Deleted => posts'[p].status = Deleted]_vars

\* ---------------------------------------------------------------------------
\* C29: for each user independently is_allowed admits at most max_requests
\* requests in any sliding window of window_seconds: in every window
\* (t - window_seconds, t] a user has at most max_requests admitted calls; a
\* call is allowed exactly when fewer than max_requests calls of the same user
\* were admitted in the window that ends with it; a denied call is not
\* recorded; and a call of one user leaves every other user's recorded
\* requests, and so their remaining allowance, as they were.
AdmittedIn(k, t) ==
    {i \in DOMAIN admitted[k] : admitted[k][i] > t - window_seconds /\ admitted[k][i] <= t}

C29_AtMostMaxPerWindow ==
    /\ [](\A k \in Buckets : \A t \in 0..MaxTime :
            Cardinality(AdmittedIn(k, t)) <= max_requests)
    /\ [][nchecks' # nchecks =>
            LET k == Bucket(rlast'.user_id)
            IN  /\ rlast'.allowed <=> Cardinality(AdmittedIn(k, current_time)) < max_requests
                /\ ~rlast'.allowed =>
                       /\ admitted' = admitted
                       /\ requests'[k] = CleanOld(requests[k], current_time - window_seconds)
                /\ \A other \in Buckets \ {k} :
                       /\ requests'[other] = requests[other]
                       /\ admitted'[other] = admitted[other]]_vars

\* the first tenant has used up its allowance of two and was just denied,
\* while the second tenant was admitted in the same window
C29_Witness ==
    /\ max_requests = 2
    /\ rlast.user_id = "T1"
    /\ ~rlast.allowed
    /\ Cardinality(AdmittedIn("T1", current_time)) = 2
    /\ Cardinality(AdmittedIn("T2", current_time)) = 1

\* ---------------------------------------------------------------------------
\* C30: a repository bound to user A is confined to A's rows.  Every row
\* get_all or get_by_id returns has user_id A; count counts rows of A only and
\* exists is true only for a row of A; a step of update or delete leaves every
\* row whose user_id is not A as it was; and a row that create adds has
\* user_id A, whatever user_id the data named.
RowsOfUser(tbl, u) == {i \in RecIds : tbl[i] # None /\ Val(tbl[i]).user_id = u}

C30_RepositoryConfined ==
    /\ [](/\ \A r \in qlast.rows : r.user_id = qlast.bound
          /\ qlast.op = "count" => qlast.n <= Cardinality(RowsOfUser(table, qlast.bound))
          /\ (qlast.op = "exists" /\ qlast.n = 1) => qlast.id \in RowsOfUser(table, qlast.bound))
    /\ [][\A i \in RecIds :
            /\ (table[i] # None /\ Val(table[i]).user_id # qlast'.bound)
                   => table'[i] = table[i]
            /\ (table[i] = None /\ table'[i] # None)
                   => /\ qlast'.op = "create"
                      /\ Val(table'[i]).user_id = qlast'.bound]_vars

\* the first tenant's repository has just created a row from data naming the
\* second tenant, while the second tenant has a row of its own
C30_Witness ==
    /\ qlast.op = "create"
    /\ qlast.bound = "T1"
    /\ qlast.data.user_id = "T2"
    /\ RowsOfUser(table, "T2") # {}
    /\ qlast.id \in RowsOfUser(table, "T1")

====
